---------------------------- MODULE Spec2Model ----------------------------
(***************************************************************************)
(* Top-hits aggregation of tantivy: the sort-key comparator                *)
(* (ComparableDocFeature / ComparableDocFeatures), the per-segment         *)
(* collector (SegmentTopHitsCollector), the merge of the per-segment       *)
(* results (TopHitsCollector::merge_fruits) and the paginated result       *)
(* (TopHitsCollector::finalize), from src/aggregation/metric/top_hits.rs.  *)
(*                                                                         *)
(* Option<T> is a sequence of length at most one: <<>> is None and <<v>>   *)
(* is Some(v).  std::cmp::Ordering is one of "Less", "Equal", "Greater".   *)
(***************************************************************************)
EXTENDS Integers, Sequences, FiniteSets, Bags, TLC

(***************************************************************************)
(* Bounds of the model.                                                    *)
(***************************************************************************)
\* largest raw u64 column value
MaxVal == 1
\* largest number of sort keys of a compared sort-key vector
MaxSortLen == 2
\* largest number of segments of the index
MaxSegs == 3
\* largest size of the index: its segments and their matching documents together
MaxIndexSize == 6
\* largest `size` of a request
MaxSize == 2
\* largest `from` of a request
MaxFrom == 1

VARIABLES
    req,         \* the TopHitsAggregation request of the query
    accessors,   \* per segment: field name -> (Column<u64>, ColumnType)
    segs,        \* per segment: the SegmentTopHitsCollector and where it is in its life
    fed,         \* history: per collector, the bag of entries given to TopHitsCollector::collect
    origin,      \* history: per collector, the segments whose documents reached it
    single,      \* one TopHitsCollector that is given every collected document
    result,      \* Option of the outcome of TopHitsCollector::finalize
    cmpSelf,     \* comparator harness: the left ComparableDocFeatures
    cmpOther,    \* comparator harness: the right ComparableDocFeatures
    cmpOut,      \* comparator harness: Option<Ordering>, the last cmp result
    cmpBefore,   \* comparator harness: Option<Ordering>, the result before invert_order
    segReq,      \* segment harness: the request of the segment collector
    segAccessors,\* segment harness: field name -> (Column<u64>, ColumnType) of the segment
    blkDocs,     \* segment harness: the block of document ids being collected
    blkPos,      \* segment harness: how many documents of the block `collect` was called on
    blkCount,    \* segment harness: how many blocks were started
    blkEach,     \* segment harness: the outcomes of calling `collect` per document
    blkBlock,    \* segment harness: the outcomes of calling `collect_block` per block
    termField,   \* term harness: the Field a term is built for
    termVal,     \* term harness: the u64 value a term is built for
    term,        \* term harness: Option<Term>, the term built
    mrgSelf,     \* merge harness: the TopHitsCollector merged into
    mrgOther,    \* merge harness: the TopHitsCollector that is merged
    mrgBefore,   \* merge harness: Option of mrgSelf as it was before merge_fruits
    mrgResult    \* merge harness: Option of what merge_fruits returned

vars == <<req, accessors, segs, fed, origin, single, result,
          cmpSelf, cmpOther, cmpOut, cmpBefore,
          segReq, segAccessors, blkDocs, blkPos, blkCount, blkEach, blkBlock,
          termField, termVal, term,
          mrgSelf, mrgOther, mrgBefore, mrgResult>>

pipeVars == <<req, accessors, segs, fed, origin, single, result>>

cmpVars == <<cmpSelf, cmpOther, cmpOut, cmpBefore>>

segVars == <<segReq, segAccessors, blkDocs, blkPos, blkCount, blkEach, blkBlock>>

termVars == <<termField, termVal, term>>

mrgVars == <<mrgSelf, mrgOther, mrgBefore, mrgResult>>

(***************************************************************************)
(* Option, Ordering, Order.                                                *)
(***************************************************************************)
None == <<>>

Some(v) == <<v>>

IsSome(o) == o # <<>>

Unwrap(o) == o[1]

UnwrapOr(o, d) == IF o = <<>> THEN d ELSE o[1]

Ordering == {"Less", "Equal", "Greater"}

Reverse(c) == CASE c = "Less" -> "Greater" [] c = "Greater" -> "Less" [] OTHER -> c

\* u64::cmp
U64Cmp(x, y) == IF x < y THEN "Less" ELSE IF x > y THEN "Greater" ELSE "Equal"

Order == {"Asc", "Desc"}

U64Values == 0 .. MaxVal

OptU64 == {None} \cup {Some(v) : v \in U64Values}

(***************************************************************************)
(* ComparableDocFeature: [value : Option<u64>, order : Order].             *)
(***************************************************************************)
ComparableDocFeature == [value : OptU64, order : Order]

\* mutant: the direction is not applied
invert_Ignored(order, c) == c

\* the closure `invert` of ComparableDocFeature::cmp, which reads self.order
invert(order, c) == IF order = "Asc" THEN c ELSE Reverse(c)

\* mutant: a missing value follows the direction like a present one
FeatureCmp_NoneInverted(self, other) ==
    CASE IsSome(self.value) /\ IsSome(other.value) ->
            invert(self.order, U64Cmp(Unwrap(self.value), Unwrap(other.value)))
      [] IsSome(self.value) /\ ~IsSome(other.value) -> invert(self.order, "Greater")
      [] ~IsSome(self.value) /\ IsSome(other.value) -> invert(self.order, "Less")
      [] OTHER -> "Equal"

\* mutant: a missing value compares Greater than a present one, too
FeatureCmp_AbsentGreater(self, other) ==
    CASE IsSome(self.value) /\ IsSome(other.value) ->
            invert(self.order, U64Cmp(Unwrap(self.value), Unwrap(other.value)))
      [] IsSome(self.value) /\ ~IsSome(other.value) -> "Greater"
      [] ~IsSome(self.value) /\ IsSome(other.value) -> "Greater"
      [] OTHER -> "Equal"

\* ComparableDocFeature::cmp(self, other)
FeatureCmp(self, other) ==
    CASE IsSome(self.value) /\ IsSome(other.value) ->
            invert(self.order, U64Cmp(Unwrap(self.value), Unwrap(other.value)))
      [] IsSome(self.value) /\ ~IsSome(other.value) -> "Greater"
      [] ~IsSome(self.value) /\ IsSome(other.value) -> "Less"
      [] OTHER -> "Equal"

(***************************************************************************)
(* ComparableDocFeatures(Vec<ComparableDocFeature>, SearchFieldResults):   *)
(* [features, search_results]; search_results is the map of the display    *)
(* fields as a set of <<name, value>> pairs.                               *)
(***************************************************************************)
Min2(x, y) == IF x <= y THEN x ELSE y

\* ComparableDocFeatures::cmp(self, other): the first non-Equal component of
\* self.0.iter().zip(other.0.iter()), Equal when there is none
RECURSIVE ZipCmp(_, _, _)
ZipCmp(self, other, i) ==
    IF i > Min2(Len(self), Len(other))
    THEN "Equal"
    ELSE LET cmp == FeatureCmp(self[i], other[i])
         IN  IF cmp # "Equal" THEN cmp ELSE ZipCmp(self, other, i + 1)

\* mutant: vectors whose components all tie are told apart by their display fields
FeaturesCmp_DisplayTieBreak(self, other) ==
    IF ZipCmp(self.features, other.features, 1) = "Equal"
           /\ self.search_results # other.search_results
    THEN "Less"
    ELSE ZipCmp(self.features, other.features, 1)

FeaturesCmp(self, other) == ZipCmp(self.features, other.features, 1)

\* mutant: the order is left as it is
invert_order_Kept(cmp_feature) == cmp_feature

\* invert_order of the tests
invert_order(cmp_feature) ==
    [value |-> cmp_feature.value,
     order |-> IF cmp_feature.order = "Asc" THEN "Desc" ELSE "Asc"]

InvertAll(fs) ==
    [features |-> [i \in 1 .. Len(fs.features) |-> invert_order(fs.features[i])],
     search_results |-> fs.search_results]

(***************************************************************************)
(* TopNComputer<ComparableDocFeatures, DocAddress, false>, the bounded     *)
(* top-K selector: [top_n : capacity, buffer : bag of ComparableDoc].      *)
(* A ComparableDoc is [feature : ComparableDocFeatures, doc : DocAddress]  *)
(* and a DocAddress is [segment_ord, doc_id].                              *)
(***************************************************************************)
TopNComputer_new(top_n) == [top_n |-> top_n, buffer |-> EmptyBag]

\* a ranks strictly better than b
Better(a, b) == FeaturesCmp(a.feature, b.feature) = "Greater"

\* the retained entries no retained entry ranks below: the cutoff
WorstOf(buffer) ==
    {w \in BagToSet(buffer) : \A x \in BagToSet(buffer) : ~Better(w, x)}

\* the retained entries no retained entry ranks above
BestOf(buffer) ==
    {b \in BagToSet(buffer) : \A x \in BagToSet(buffer) : ~Better(x, b)}

\* TopNComputer::push(feature, doc): the selectors it can leave; which of
\* several equally ranked worst entries is evicted is not determined
push(self, feature, doc) ==
    LET e == [feature |-> feature, doc |-> doc]
        count == BagCardinality(self.buffer)
    IN  IF count < self.top_n
        THEN {[self EXCEPT !.buffer = @ (+) SetToBag({e})]}
        ELSE IF count = 0
        THEN {self}
        ELSE IF \E w \in WorstOf(self.buffer) : Better(e, w)
        THEN {[self EXCEPT !.buffer = (@ (-) SetToBag({w})) (+) SetToBag({e})] :
                 w \in WorstOf(self.buffer)}
        ELSE {self}

\* TopNComputer::into_vec(): the retained entries, in no particular order
into_vec(self) == self.buffer

\* TopNComputer::into_sorted_vec(): the retained entries from best to worst;
\* the order among equally ranked entries is not determined
RECURSIVE SortedVecs(_)
SortedVecs(buffer) ==
    IF BagToSet(buffer) = {}
    THEN {<<>>}
    ELSE UNION {{<<b>> \o t : t \in SortedVecs(buffer (-) SetToBag({b}))} :
                   b \in BestOf(buffer)}

into_sorted_vec(self) == SortedVecs(self.buffer)

(***************************************************************************)
(* TopHitsAggregation: [sort : Seq(KeyOrder), size, from : Option<usize>,  *)
(* doc_value_fields : Seq(field name)], KeyOrder: [field, order].          *)
(* TopHitsCollector: [req, top_n : TopNComputer].                          *)
(***************************************************************************)
Fields == {"date"}

ColumnType == {"U64", "I64", "F64", "Str"}

\* the segment ordinals of the index
SegIds == DOMAIN segs

\* mutant: the entry is pushed twice
TopHitsCollector_collect_Twice(self, features, doc) ==
    UNION {{[self EXCEPT !.top_n = u] : u \in push(t, features, doc)} :
              t \in push(self.top_n, features, doc)}

\* TopHitsCollector::collect(features, doc)
TopHitsCollector_collect(self, features, doc) ==
    {[self EXCEPT !.top_n = t] : t \in push(self.top_n, features, doc)}

\* TopHitsCollector::merge_fruits(other_fruit): every entry of
\* other_fruit.top_n.into_vec() is collected into self, in the vector's order
RECURSIVE CollectAll(_, _)
CollectAll(self, docs) ==
    IF BagToSet(docs) = {}
    THEN {self}
    ELSE UNION {UNION {CollectAll(c, docs (-) SetToBag({d})) :
                          c \in TopHitsCollector_collect(self, d.feature, d.doc)} :
                   d \in BagToSet(docs)}

\* mutant: the other result is dropped
merge_fruits_SelfOnly(self, other_fruit) == {self}

\* mutant: only one entry of the other result is collected
merge_fruits_OneEntry(self, other_fruit) ==
    IF BagToSet(into_vec(other_fruit.top_n)) = {}
    THEN {self}
    ELSE UNION {TopHitsCollector_collect(self, d.feature, d.doc) :
                   d \in BagToSet(into_vec(other_fruit.top_n))}

\* mutant: the entries of the other result are appended to the buffer
merge_fruits_Append(self, other_fruit) ==
    {[self EXCEPT !.top_n.buffer = @ (+) into_vec(other_fruit.top_n)]}

\* mutant: self takes over the capacity of the other result
merge_fruits_OtherCapacity(self, other_fruit) ==
    CollectAll([self EXCEPT !.top_n.top_n = other_fruit.top_n.top_n],
               into_vec(other_fruit.top_n))

merge_fruits(self, other_fruit) == CollectAll(self, into_vec(other_fruit.top_n))

\* what merge_fruits returns: `Ok(())`
merge_fruits_result(self, other_fruit) == "Ok"

\* the TopHitsVecEntry of a retained entry
TopHitsVecEntry(doc) ==
    [id |-> doc.doc,
     sort |-> [i \in 1 .. Len(doc.feature.features) |-> doc.feature.features[i].value],
     search_results |-> doc.feature.search_results]

\* Vec::drain(..n): a panic when n is beyond the end, else the rest
drain(hits, n) ==
    IF n > Len(hits)
    THEN [panic |-> TRUE, hits |-> <<>>]
    ELSE [panic |-> FALSE, hits |-> SubSeq(hits, n + 1, Len(hits))]

\* TopHitsCollector::finalize(self): the outcomes it can have
finalize(self) ==
    {drain([i \in 1 .. Len(sorted) |-> TopHitsVecEntry(sorted[i])],
           UnwrapOr(self.req.from, 0)) :
        sorted \in into_sorted_vec(self.top_n)}

\* TopHitsCollector::default()
TopHitsCollector_default ==
    [req |-> [sort |-> <<>>, size |-> 0, from |-> None, doc_value_fields |-> <<>>],
     top_n |-> TopNComputer_new(1)]

(***************************************************************************)
(* SegmentTopHitsCollector: [segment_id, inner_collector].                 *)
(***************************************************************************)
\* mutant: every segment collector is given the segment ordinal 0
from_req_SegmentZero(r, segment_id) ==
    [segment_id |-> 0,
     inner_collector |->
        [req |-> r, top_n |-> TopNComputer_new(r.size + UnwrapOr(r.from, 0))]]

\* mutant: the selector is never given a capacity below 1
from_req_AtLeastOne(r, segment_id) ==
    [segment_id |-> segment_id,
     inner_collector |->
        [req |-> r,
         top_n |-> TopNComputer_new(IF r.size + UnwrapOr(r.from, 0) = 0
                                    THEN 1
                                    ELSE r.size + UnwrapOr(r.from, 0))]]

\* SegmentTopHitsCollector::from_req(req, accessor_idx, segment_id)
from_req(r, segment_id) ==
    [segment_id |-> segment_id,
     inner_collector |->
        [req |-> r, top_n |-> TopNComputer_new(r.size + UnwrapOr(r.from, 0))]]

\* accessor.0.values_for_doc(doc_id).next(); document ids start at 0
FirstValue(accessor, doc_id) == accessor.column[doc_id + 1]

\* the sort key of a document: one ComparableDocFeature per KeyOrder of req.sort
SortFeatures(r, accs, doc_id) ==
    [i \in 1 .. Len(r.sort) |->
        [value |-> FirstValue(accs[r.sort[i].field], doc_id),
         order |-> r.sort[i].order]]


(***************************************************************************)
(* SearchFields::get_fields: the display fields of one document.           *)
(***************************************************************************)
\* width of a column value in the model, in place of the 64 bits of a u64
U64Bits == 3

HighestBit == 2 ^ (U64Bits - 1)

\* common::u64_to_i64: the sign-flip transform
u64_to_i64(val) == val - HighestBit

\* common::u64_to_f64: the bit pattern of the float, from the order-preserving value
u64_to_f64(val) == IF val >= HighestBit THEN val - HighestBit ELSE (2 ^ U64Bits - 1) - val

\* SearchFields::get_fields(accessors, doc_id): a panic when a requested field
\* has no value for the document (`expect("val must exist")`) or a column
\* type that is not numeric (`todo!()`); the fields are mapped in the order of
\* the request and, for one field, the value is fetched before the type is
\* matched
get_fields(doc_value_fields, accs, doc_id) ==
    LET names == {doc_value_fields[i] : i \in 1 .. Len(doc_value_fields)}
        Value(f) ==
            LET values == Unwrap(FirstValue(accs[f], doc_id))
            IN  CASE accs[f].type = "U64" -> <<"U64", values>>
                  [] accs[f].type = "I64" -> <<"I64", u64_to_i64(values)>>
                  [] OTHER -> <<"F64", u64_to_f64(values)>>
        Missing(f) == ~IsSome(FirstValue(accs[f], doc_id))
        failing == {i \in 1 .. Len(doc_value_fields) :
                       \/ Missing(doc_value_fields[i])
                       \/ accs[doc_value_fields[i]].type \notin {"U64", "I64", "F64"}}
        first == CHOOSE i \in failing : \A j \in failing : i <= j
    IN  IF failing # {}
        THEN [panic |-> TRUE,
              message |-> IF Missing(doc_value_fields[first])
                          THEN "val must exist"
                          ELSE "not yet implemented",
              doc_value_fields |-> {}]
        ELSE [panic |-> FALSE,
              message |-> "",
              doc_value_fields |-> {<<f, Value(f)>> : f \in names}]

(***************************************************************************)
(* The query: every segment has a collector that is given the segment's    *)
(* matching documents one by one; a finished collector hands its           *)
(* TopHitsCollector over as an intermediate result; intermediate results   *)
(* are merged pairwise, in any order and grouping; one is finalized.       *)
(***************************************************************************)
SortSpecs == {<<[field |-> f, order |-> o]>> : f \in Fields, o \in Order}

Requests ==
    [sort : SortSpecs,
     size : 0 .. MaxSize,
     from : {None} \cup {Some(n) : n \in 0 .. MaxFrom},
     doc_value_fields : {<<>>}]

DocAddress(segment_ord, doc_id) == [segment_ord |-> segment_ord, doc_id |-> doc_id]

\* the documents a segment collector has been given so far
NumDocs(accs) == Len(accs["date"].column)

\* the documents the segment collectors of S have been given so far
RECURSIVE Sum(_, _)
Sum(f, S) == IF S = {} THEN 0 ELSE LET x == CHOOSE y \in S : TRUE IN f[x] + Sum(f, S \ {x})

TotalDocs(S) == Sum([s \in SegIds |-> NumDocs(accessors[s])], S)

\* the entry SegmentTopHitsCollector::collect builds for a document
EntryOf(r, accs, segment_id, doc_id) ==
    [feature |-> [features |-> SortFeatures(r, accs, doc_id),
                  search_results |-> get_fields(r.doc_value_fields, accs, doc_id).doc_value_fields],
     doc |-> DocAddress(segment_id, doc_id)]

\* SegmentTopHitsCollector::collect(doc_id, agg_with_accessor): the outcomes
\* [self, result, message] it can have; result is "Ok" for Ok(()), "Err" for
\* an Err(..) and "panic" when the call panics, which leaves self as it was
SegmentTopHitsCollector_collect(self, doc_id, accs) ==
    LET r == self.inner_collector.req
        features == SortFeatures(r, accs, doc_id)
        search_results == get_fields(r.doc_value_fields, accs, doc_id)
    IN  IF search_results.panic
        THEN {[self |-> self, result |-> "panic", message |-> search_results.message]}
        ELSE {[self |-> [self EXCEPT !.inner_collector = c], result |-> "Ok", message |-> ""] :
                 c \in TopHitsCollector_collect(
                           self.inner_collector,
                           [features |-> features,
                            search_results |-> search_results.doc_value_fields],
                           DocAddress(self.segment_id, doc_id))}

\* mutant: the last document of the block is not collected
RECURSIVE collect_block_SkipsLast(_, _, _)
collect_block_SkipsLast(self, docs, accs) ==
    IF Len(docs) <= 1
    THEN {[self |-> self, result |-> "Ok", message |-> ""]}
    ELSE UNION {IF o.result # "Ok"
                THEN {o}
                ELSE collect_block_SkipsLast(o.self, Tail(docs), accs) :
                   o \in SegmentTopHitsCollector_collect(self, Head(docs), accs)}

\* SegmentTopHitsCollector::collect_block(docs, agg_with_accessor):
\* `for doc in docs { self.collect(*doc, agg_with_accessor)?; } Ok(())`
RECURSIVE collect_block(_, _, _)
collect_block(self, docs, accs) ==
    IF docs = <<>>
    THEN {[self |-> self, result |-> "Ok", message |-> ""]}
    ELSE UNION {IF o.result # "Ok"
                THEN {o}
                ELSE collect_block(o.self, Tail(docs), accs) :
                   o \in SegmentTopHitsCollector_collect(self, Head(docs), accs)}

cmpIdle ==
    /\ cmpSelf = [features |-> <<>>, search_results |-> {}]
    /\ cmpOther = [features |-> <<>>, search_results |-> {}]
    /\ cmpOut = None
    /\ cmpBefore = None

segIdle ==
    /\ segReq = TopHitsCollector_default.req
    /\ segAccessors = <<>>
    /\ blkDocs = <<>>
    /\ blkPos = 0
    /\ blkCount = 0
    /\ blkEach = {}
    /\ blkBlock = {}

termIdle ==
    /\ termField = 0
    /\ termVal = 0
    /\ term = None

mrgIdle ==
    /\ mrgSelf = TopHitsCollector_default
    /\ mrgOther = TopHitsCollector_default
    /\ mrgBefore = None
    /\ mrgResult = None

Init ==
    /\ req \in Requests
    /\ \E n \in 1 .. MaxSegs :
        /\ accessors = [s \in 0 .. (n - 1) |->
                            [f \in Fields |-> [column |-> <<>>, type |-> "U64"]]]
        /\ segs = [s \in 0 .. (n - 1) |->
                       [collector |-> from_req(req, s), state |-> "collecting"]]
        /\ fed = [s \in 0 .. (n - 1) |-> EmptyBag]
        /\ origin = [s \in 0 .. (n - 1) |-> {s}]
    /\ single = from_req(req, 0).inner_collector
    /\ result = None
    /\ cmpIdle
    /\ segIdle
    /\ termIdle
    /\ mrgIdle

\* mutant: the segment collectors push into one shared selector, so that
\* every collector sees the entry
Collect_SharedSelector(s) ==
    /\ result = None
    /\ segs[s].state = "collecting"
    /\ Cardinality(SegIds) + TotalDocs(SegIds) < MaxIndexSize
    /\ \E row \in [Fields -> OptU64] :
        LET doc_id == NumDocs(accessors[s])
            accs == [f \in Fields |->
                        [accessors[s][f] EXCEPT !.column = Append(@, row[f])]]
            e == EntryOf(req, accs, s, doc_id)
            pushed(c) == CHOOSE d \in TopHitsCollector_collect(c, e.feature, e.doc) : TRUE
        IN  /\ accessors' = [accessors EXCEPT ![s] = accs]
            /\ segs' = [t \in SegIds |->
                           [segs[t] EXCEPT !.collector.inner_collector = pushed(@)]]
            /\ fed' = [fed EXCEPT ![s] = @ (+) SetToBag({e})]
            /\ single' = pushed(single)
    /\ UNCHANGED <<req, origin, result, cmpVars, segVars, termVars, mrgVars>>

\* SegmentTopHitsCollector::collect(doc_id, agg_with_accessor) for the next
\* matching document of segment s, whose column values are `row`
Collect(s) ==
    /\ result = None
    /\ segs[s].state = "collecting"
    /\ Cardinality(SegIds) + TotalDocs(SegIds) < MaxIndexSize
    /\ \E row \in [Fields -> OptU64] :
        LET doc_id == NumDocs(accessors[s])
            accs == [f \in Fields |->
                        [accessors[s][f] EXCEPT !.column = Append(@, row[f])]]
            self == segs[s].collector
            r == self.inner_collector.req
            search_results == get_fields(r.doc_value_fields, accs, doc_id)
            e == EntryOf(r, accs, self.segment_id, doc_id)
        IN  /\ accessors' = [accessors EXCEPT ![s] = accs]
            /\ IF search_results.panic
               THEN /\ segs' = [segs EXCEPT ![s].state = "panicked"]
                    /\ UNCHANGED <<fed, single>>
               ELSE /\ \E c \in TopHitsCollector_collect(self.inner_collector, e.feature, e.doc) :
                        segs' = [segs EXCEPT ![s].collector.inner_collector = c]
                    /\ fed' = [fed EXCEPT ![s] = @ (+) SetToBag({e})]
                    /\ \E c \in TopHitsCollector_collect(single, e.feature, e.doc) :
                        single' = c
    /\ UNCHANGED <<req, origin, result, cmpVars, segVars, termVars, mrgVars>>

\* SegmentTopHitsCollector::add_intermediate_aggregation_result of every
\* segment collector: the inner collectors become the intermediate results.
\* Merging starts when the results of all segments are there.
Harvest ==
    /\ result = None
    /\ \A s \in SegIds : segs[s].state = "collecting"
    /\ segs' = [s \in SegIds |-> [segs[s] EXCEPT !.state = "fruit"]]
    /\ UNCHANGED <<req, accessors, fed, origin, single, result, cmpVars, segVars, termVars, mrgVars>>

\* `segs[i].merge_fruits(segs[j])` on two intermediate results
MergeFruits(i, j) ==
    /\ result = None
    /\ i # j
    /\ segs[i].state = "fruit"
    /\ segs[j].state = "fruit"
    /\ \E c \in merge_fruits(segs[i].collector.inner_collector,
                             segs[j].collector.inner_collector) :
        segs' = [segs EXCEPT ![i].collector.inner_collector = c,
                             ![j].state = "merged"]
    /\ fed' = [fed EXCEPT ![i] = @ (+) into_vec(segs[j].collector.inner_collector.top_n)]
    /\ origin' = [origin EXCEPT ![i] = @ \cup origin[j]]
    /\ UNCHANGED <<req, accessors, single, result, cmpVars, segVars, termVars, mrgVars>>

\* TopHitsCollector::finalize on the intermediate result i, once every other
\* intermediate result is merged into it
Finalize(i) ==
    /\ result = None
    /\ segs[i].state = "fruit"
    /\ \A j \in SegIds \ {i} : segs[j].state = "merged"
    /\ \E r \in finalize(segs[i].collector.inner_collector) :
        result' = Some([panic |-> r.panic, hits |-> r.hits, of |-> i])
    /\ segs' = [segs EXCEPT ![i].state = "finalized"]
    /\ UNCHANGED <<req, accessors, fed, origin, single, cmpVars, segVars, termVars, mrgVars>>

Next ==
    \/ \E s \in SegIds : Collect(s)
    \/ Harvest
    \/ \E i \in SegIds : \E j \in SegIds : MergeFruits(i, j)
    \/ \E i \in SegIds : Finalize(i)

Spec == Init /\ [][Next]_vars

pipeIdle ==
    /\ req = TopHitsCollector_default.req
    /\ accessors = <<>>
    /\ segs = <<>>
    /\ fed = <<>>
    /\ origin = <<>>
    /\ single = TopHitsCollector_default
    /\ result = None

(***************************************************************************)
(* Comparator harness, after test_comparable_doc_feature: two sort-key     *)
(* vectors built from one sort specification are compared, the order of    *)
(* every component is inverted, and they are compared again.               *)
(***************************************************************************)
SortLens == 1 .. MaxSortLen

MkFeatures(orders, values) ==
    [features |-> [i \in 1 .. Len(orders) |-> [value |-> values[i], order |-> orders[i]]],
     search_results |-> {}]

\* SearchFieldResults values attached to the compared vectors: no display
\* field, or every field as Value::U64(0)
SearchFieldResults == {{}, {<<f, <<"U64", 0>>>> : f \in Fields}}

CmpInit ==
    \E n \in SortLens :
        \E orders \in [1 .. n -> Order] :
            \E va \in [1 .. n -> OptU64], vb \in [1 .. n -> OptU64] :
                \E sa \in SearchFieldResults, sb \in SearchFieldResults :
                    /\ cmpSelf = [MkFeatures(orders, va) EXCEPT !.search_results = sa]
                    /\ cmpOther = [MkFeatures(orders, vb) EXCEPT !.search_results = sb]
                    /\ cmpOut = None
                    /\ cmpBefore = None
                    /\ pipeIdle
                    /\ segIdle
                    /\ termIdle
                    /\ mrgIdle

\* `a.cmp(&b)`
CmpCompare ==
    /\ cmpOut = None
    /\ cmpOut' = Some(FeaturesCmp(cmpSelf, cmpOther))
    /\ UNCHANGED <<cmpSelf, cmpOther, cmpBefore, pipeVars, segVars, termVars, mrgVars>>

\* `let a = invert_order(a); let b = invert_order(b);`
CmpInvert ==
    /\ cmpOut # None
    /\ cmpBefore = None
    /\ cmpBefore' = cmpOut
    /\ cmpOut' = None
    /\ cmpSelf' = InvertAll(cmpSelf)
    /\ cmpOther' = InvertAll(cmpOther)
    /\ UNCHANGED <<pipeVars, segVars, termVars, mrgVars>>

CmpNext == CmpCompare \/ CmpInvert

SpecCmp == CmpInit /\ [][CmpNext]_vars

(***************************************************************************)
(* Segment harness: one SegmentTopHitsCollector over a segment whose       *)
(* columns are given; blocks of document ids are collected twice, once     *)
(* with one collect_block call per block and once with one collect call    *)
(* per document id, from the same starting collector.                      *)
(***************************************************************************)
\* the number of documents of the segment
MaxSegDocs == 2

\* largest number of document ids of a block
MaxBlockLen == 2

\* largest number of blocks collected
MaxBlocks == 2

SegRequests ==
    [sort : SortSpecs,
     size : 1 .. MaxSize,
     from : {None},
     doc_value_fields : {<<>>} \cup {<<f>> : f \in Fields}]

Blocks == UNION {[1 .. n -> 0 .. (MaxSegDocs - 1)] : n \in 0 .. MaxBlockLen}

SegInit ==
    /\ segReq \in SegRequests
    /\ \E columns \in [Fields -> [1 .. MaxSegDocs -> OptU64]], types \in [Fields -> ColumnType] :
        segAccessors = [f \in Fields |-> [column |-> columns[f], type |-> types[f]]]
    /\ blkDocs = <<>>
    /\ blkPos = 0
    /\ blkCount = 0
    /\ blkEach = {[self |-> from_req(segReq, 0), result |-> "Ok", message |-> ""]}
    /\ blkBlock = {[self |-> from_req(segReq, 0), result |-> "Ok", message |-> ""]}
    /\ pipeIdle
    /\ cmpIdle
    /\ termIdle
    /\ mrgIdle

\* `collector.collect_block(docs, agg_with_accessor)?` on the one side, and
\* the same block handed to the other side
SegCollectBlock(docs) ==
    /\ blkPos = Len(blkDocs)
    /\ blkCount < MaxBlocks
    /\ blkDocs' = docs
    /\ blkPos' = 0
    /\ blkCount' = blkCount + 1
    /\ blkBlock' = UNION {IF o.result # "Ok"
                          THEN {o}
                          ELSE collect_block(o.self, docs, segAccessors) :
                             o \in blkBlock}
    /\ UNCHANGED <<segReq, segAccessors, blkEach, pipeVars, cmpVars, termVars, mrgVars>>

\* `collector.collect(doc, agg_with_accessor)?` for the next document id of
\* the block on the other side
SegCollect ==
    /\ blkPos < Len(blkDocs)
    /\ blkPos' = blkPos + 1
    /\ blkEach' = UNION {IF o.result # "Ok"
                         THEN {o}
                         ELSE SegmentTopHitsCollector_collect(
                                  o.self, blkDocs[blkPos + 1], segAccessors) :
                            o \in blkEach}
    /\ UNCHANGED <<segReq, segAccessors, blkDocs, blkCount, blkBlock,
                   pipeVars, cmpVars, termVars, mrgVars>>

SegNext ==
    \/ \E docs \in Blocks : SegCollectBlock(docs)
    \/ SegCollect

SpecSeg == SegInit /\ [][SegNext]_vars

(***************************************************************************)
(* Term(Vec<u8>) of src/schema/term.rs: a sequence of bytes, the 4 bytes   *)
(* of the field id followed by the bytes of the value.  A byte takes       *)
(* ByteBase values in the model (256 in a u8), so that a u32 has           *)
(* ByteBase^4 values and a u64 has ByteBase^8.                             *)
(***************************************************************************)
\* the number of values of a byte in the model
ByteBase == 2

\* largest field id a term is built for
MaxField == 2

\* Size (in bytes) of the buffer of a int field: 4 + 8
INT_TERM_LEN == 12

U64All == 0 .. (ByteBase ^ 8 - 1)

TermFields == 0 .. MaxField

\* mutant: the least significant byte first
RECURSIVE LittleEndianBytes(_, _)
LittleEndianBytes(val, n) ==
    IF n = 0 THEN <<>> ELSE <<val % ByteBase>> \o LittleEndianBytes(val \div ByteBase, n - 1)

\* what BigEndian::write_u32 (n = 4) and BigEndian::write_u64 (n = 8) write:
\* the n bytes of val, the most significant first
RECURSIVE BigEndianBytes(_, _)
BigEndianBytes(val, n) ==
    IF n = 0 THEN <<>> ELSE Append(BigEndianBytes(val \div ByteBase, n - 1), val % ByteBase)

\* BigEndian::read_u32 / read_u64 of the bytes given
RECURSIVE BigEndianRead(_)
BigEndianRead(bytes) ==
    IF bytes = <<>>
    THEN 0
    ELSE BigEndianRead(SubSeq(bytes, 1, Len(bytes) - 1)) * ByteBase + bytes[Len(bytes)]

\* Vec::resize(new_len, value)
resize(vec, new_len, value) ==
    IF Len(vec) >= new_len
    THEN SubSeq(vec, 1, new_len)
    ELSE vec \o [i \in 1 .. (new_len - Len(vec)) |-> value]

\* the buffer with `bytes` written from offset `at` (0-based) on
WriteAt(vec, at, bytes) ==
    [i \in 1 .. Len(vec) |->
        IF i > at /\ i <= at + Len(bytes) THEN bytes[i - at] ELSE vec[i]]

\* Term::field(&self)
field(self) == BigEndianRead(SubSeq(self, 1, 4))

\* Term::set_field(&mut self, field)
set_field(self, f) ==
    WriteAt(IF Len(self) < 4 THEN resize(self, 4, 0) ELSE self, 0, BigEndianBytes(f, 4))

\* mutant: the value is written at the start of the buffer
set_u64_AtStart(self, val) ==
    WriteAt(resize(self, INT_TERM_LEN, 0), 0, BigEndianBytes(val, 8))

\* Term::set_u64(&mut self, val)
set_u64(self, val) ==
    WriteAt(resize(self, INT_TERM_LEN, 0), 4, BigEndianBytes(val, 8))

\* Term::from_field_u64(field, val)
from_field_u64(f, val) ==
    set_u64(set_field([i \in 1 .. INT_TERM_LEN |-> 0], f), val)

\* Term::get_u64(&self): BigEndian::read_u64 reads the first 8 bytes of &self.0[4..]
get_u64(self) == BigEndianRead(SubSeq(self, 5, 12))

\* the derived Ord of Term: the lexicographic order of Vec<u8>
RECURSIVE TermCmp(_, _)
TermCmp(a, b) ==
    CASE a = <<>> /\ b = <<>> -> "Equal"
      [] a = <<>> -> "Less"
      [] b = <<>> -> "Greater"
      [] OTHER -> IF Head(a) # Head(b)
                  THEN U64Cmp(Head(a), Head(b))
                  ELSE TermCmp(Tail(a), Tail(b))

(***************************************************************************)
(* Term harness, after test_term: a term is built for a field and a value, *)
(* then its field or its value is set anew.                                *)
(***************************************************************************)
TermInit ==
    /\ termField \in TermFields
    /\ termVal \in U64All
    /\ term = None
    /\ pipeIdle
    /\ cmpIdle
    /\ segIdle
    /\ mrgIdle

\* `let term = Term::from_field_u64(field, val);`
TermBuild ==
    /\ term = None
    /\ term' = Some(from_field_u64(termField, termVal))
    /\ UNCHANGED <<termField, termVal, pipeVars, cmpVars, segVars, mrgVars>>

\* `term.set_u64(val);`
TermSetU64(val) ==
    /\ term # None
    /\ term' = Some(set_u64(Unwrap(term), val))
    /\ termVal' = val
    /\ UNCHANGED <<termField, pipeVars, cmpVars, segVars, mrgVars>>

\* `term.set_field(field);`
TermSetField(f) ==
    /\ term # None
    /\ term' = Some(set_field(Unwrap(term), f))
    /\ termField' = f
    /\ UNCHANGED <<termVal, pipeVars, cmpVars, segVars, mrgVars>>

TermNext ==
    \/ TermBuild
    \/ \E val \in U64All : TermSetU64(val)
    \/ \E f \in TermFields : TermSetField(f)

SpecTerm == TermInit /\ [][TermNext]_vars

(***************************************************************************)
(* Merge harness: a TopHitsCollector, default-constructed or built for a   *)
(* request, and another one built for a request of its own are given       *)
(* documents; then the second is merged into the first.                    *)
(***************************************************************************)
\* largest number of documents given to one collector before the merge
MaxMergeDocs == 2

MrgRequests ==
    [sort : SortSpecs,
     size : 0 .. MaxSize,
     from : {None, Some(MaxFrom)},
     doc_value_fields : {<<>>}]

MrgInit ==
    /\ mrgSelf \in {TopHitsCollector_default} \cup
                    {from_req(r, 0).inner_collector : r \in MrgRequests}
    /\ mrgOther \in {from_req(r, 1).inner_collector : r \in MrgRequests}
    /\ mrgBefore = None
    /\ mrgResult = None
    /\ pipeIdle
    /\ cmpIdle
    /\ segIdle
    /\ termIdle

\* the sort key of a document with value `value` for a collector of request r
MrgFeatures(r, value) ==
    [features |-> [i \in 1 .. Len(r.sort) |-> [value |-> value, order |-> r.sort[i].order]],
     search_results |-> {}]

\* `mrgSelf.collect(features, doc)`, for a document of segment 0 with an id
\* above those of the retained entries
MrgCollectSelf(n, value) ==
    /\ mrgResult = None
    /\ mrgSelf.req.sort # <<>>
    /\ ~\E e \in BagToSet(into_vec(mrgSelf.top_n)) : e.doc.doc_id >= n
    /\ \E c \in TopHitsCollector_collect(mrgSelf, MrgFeatures(mrgSelf.req, value),
                                          DocAddress(0, n)) :
        mrgSelf' = c
    /\ UNCHANGED <<mrgOther, mrgBefore, mrgResult, pipeVars, cmpVars, segVars, termVars>>

\* `mrgOther.collect(features, doc)`, for a document of segment 1 with an id
\* above those of the retained entries
MrgCollectOther(n, value) ==
    /\ mrgResult = None
    /\ ~\E e \in BagToSet(into_vec(mrgOther.top_n)) : e.doc.doc_id >= n
    /\ \E c \in TopHitsCollector_collect(mrgOther, MrgFeatures(mrgOther.req, value),
                                          DocAddress(1, n)) :
        mrgOther' = c
    /\ UNCHANGED <<mrgSelf, mrgBefore, mrgResult, pipeVars, cmpVars, segVars, termVars>>

\* `let result = mrgSelf.merge_fruits(mrgOther);`
MrgMerge ==
    /\ mrgResult = None
    /\ mrgBefore' = Some(mrgSelf)
    /\ \E c \in merge_fruits(mrgSelf, mrgOther) : mrgSelf' = c
    /\ mrgResult' = Some(merge_fruits_result(mrgSelf, mrgOther))
    /\ UNCHANGED <<mrgOther, pipeVars, cmpVars, segVars, termVars>>

MrgNext ==
    \/ \E n \in 0 .. (MaxMergeDocs - 1), value \in OptU64 : MrgCollectSelf(n, value)
    \/ \E n \in 0 .. (MaxMergeDocs - 1), value \in OptU64 : MrgCollectOther(n, value)
    \/ MrgMerge

SpecMerge == MrgInit /\ [][MrgNext]_vars

(***************************************************************************)
(* Properties of the comparator (specification SpecCmp).                   *)
(***************************************************************************)
CmpIndices == 1 .. Len(cmpSelf.features)

AllPresent(fs) == \A i \in 1 .. Len(fs.features) : IsSome(fs.features[i].value)

\* C8: whatever the direction, a component holding Some(v) compares Greater
\* than a component holding None, None compares Less than Some(v), and None
\* against None compares Equal; a one-component vector compares the same way.
C8_PresentOverAbsent ==
    /\ \A i \in CmpIndices :
        LET a == cmpSelf.features[i]
            b == cmpOther.features[i]
        IN  /\ (IsSome(a.value) /\ ~IsSome(b.value)) =>
                    (FeatureCmp(a, b) = "Greater" /\ FeatureCmp(b, a) = "Less")
            /\ (~IsSome(a.value) /\ IsSome(b.value)) =>
                    (FeatureCmp(a, b) = "Less" /\ FeatureCmp(b, a) = "Greater")
            /\ (~IsSome(a.value) /\ ~IsSome(b.value)) => FeatureCmp(a, b) = "Equal"
    /\ (Len(cmpSelf.features) = 1 /\ cmpOut # None) =>
        LET a == cmpSelf.features[1]
            b == cmpOther.features[1]
        IN  /\ (IsSome(a.value) /\ ~IsSome(b.value)) => Unwrap(cmpOut) = "Greater"
            /\ (~IsSome(a.value) /\ IsSome(b.value)) => Unwrap(cmpOut) = "Less"
            /\ (~IsSome(a.value) /\ ~IsSome(b.value)) => Unwrap(cmpOut) = "Equal"

\* a Descending present component was compared with an absent one, after the
\* Ascending comparison of the same values, and came out Greater
C8_Witness ==
    /\ Len(cmpSelf.features) = 1
    /\ cmpSelf.features[1].order = "Desc"
    /\ IsSome(cmpSelf.features[1].value)
    /\ ~IsSome(cmpOther.features[1].value)
    /\ cmpBefore = Some("Greater")
    /\ cmpOut = Some("Greater")

\* C9: with both values present, an Ascending component compares Less iff its
\* value is numerically smaller and Equal iff the values are equal; a
\* Descending component compares the exact reverse of the numeric comparison.
C9_BothPresent ==
    /\ \A i \in CmpIndices :
        LET a == cmpSelf.features[i]
            b == cmpOther.features[i]
            x == Unwrap(a.value)
            y == Unwrap(b.value)
        IN  (IsSome(a.value) /\ IsSome(b.value)) =>
                /\ a.order = "Asc" =>
                    /\ FeatureCmp(a, b) = "Less" <=> x < y
                    /\ FeatureCmp(a, b) = "Equal" <=> x = y
                    /\ FeatureCmp(a, b) = "Greater" <=> x > y
                /\ a.order = "Desc" =>
                    /\ FeatureCmp(a, b) = "Less" <=> x > y
                    /\ FeatureCmp(a, b) = "Equal" <=> x = y
                    /\ FeatureCmp(a, b) = "Greater" <=> x < y
    /\ (Len(cmpSelf.features) = 1 /\ cmpOut # None /\ AllPresent(cmpSelf)
            /\ AllPresent(cmpOther)) =>
        LET x == Unwrap(cmpSelf.features[1].value)
            y == Unwrap(cmpOther.features[1].value)
        IN  Unwrap(cmpOut) = IF cmpSelf.features[1].order = "Asc"
                             THEN U64Cmp(x, y)
                             ELSE U64Cmp(y, x)

\* a Descending component with the smaller value was compared and came out
\* Greater, after coming out Less as an Ascending one
C9_Witness ==
    /\ Len(cmpSelf.features) = 1
    /\ cmpSelf.features[1].order = "Desc"
    /\ AllPresent(cmpSelf) /\ AllPresent(cmpOther)
    /\ Unwrap(cmpSelf.features[1].value) < Unwrap(cmpOther.features[1].value)
    /\ cmpBefore = Some("Less")
    /\ cmpOut = Some("Greater")

\* C10: inverting the order of every component of two vectors whose
\* components are all present turns the comparison into its exact reverse;
\* for a pair of components of which exactly one is present, inverting the
\* order leaves the comparison as it was.
C10_DirectionFlip ==
    /\ (cmpBefore # None /\ cmpOut # None) =>
        /\ (AllPresent(cmpSelf) /\ AllPresent(cmpOther)) =>
                Unwrap(cmpOut) = Reverse(Unwrap(cmpBefore))
        /\ (Len(cmpSelf.features) = 1
                /\ IsSome(cmpSelf.features[1].value) # IsSome(cmpOther.features[1].value)) =>
                cmpOut = cmpBefore
    /\ \A i \in CmpIndices :
        LET a == cmpSelf.features[i]
            b == cmpOther.features[i]
        IN  (IsSome(a.value) # IsSome(b.value)) =>
                FeatureCmp(invert_order(a), invert_order(b)) = FeatureCmp(a, b)

\* two vectors of two present components that tie on the first one were
\* compared before and after the inversion, with opposite results
C10_Witness ==
    /\ Len(cmpSelf.features) = 2
    /\ AllPresent(cmpSelf) /\ AllPresent(cmpOther)
    /\ cmpSelf.features[1].value = cmpOther.features[1].value
    /\ cmpSelf.features[1].order # cmpSelf.features[2].order
    /\ cmpBefore = Some("Less")
    /\ cmpOut = Some("Greater")

\* the lowest index at which the components of two vectors do not tie, 0
\* when they tie at every index
FirstDiff(a, b) ==
    LET diff == {i \in 1 .. Len(a.features) :
                    FeatureCmp(a.features[i], b.features[i]) # "Equal"}
    IN  IF diff = {} THEN 0 ELSE CHOOSE i \in diff : \A j \in diff : i <= j

\* C11: the comparison of two sort-key vectors of equal length is the
\* comparison of their components at the lowest index where these do not
\* tie, and Equal when all components tie; with any other display fields
\* attached to either vector the result is the same.
C11_Lexicographic ==
    /\ Len(cmpSelf.features) = Len(cmpOther.features)
    /\ cmpOut # None =>
        LET i == FirstDiff(cmpSelf, cmpOther)
        IN  Unwrap(cmpOut) = IF i = 0
                             THEN "Equal"
                             ELSE FeatureCmp(cmpSelf.features[i], cmpOther.features[i])
    /\ \A sa \in SearchFieldResults, sb \in SearchFieldResults :
        FeaturesCmp([cmpSelf EXCEPT !.search_results = sa],
                    [cmpOther EXCEPT !.search_results = sb])
            = FeaturesCmp(cmpSelf, cmpOther)

\* two vectors with different display fields that tie on the first of two
\* components were compared, before and after the inversion: the second
\* component decided
C11_Witness ==
    /\ Len(cmpSelf.features) = 2
    /\ cmpSelf.search_results # cmpOther.search_results
    /\ FirstDiff(cmpSelf, cmpOther) = 2
    /\ cmpBefore = Some("Less")
    /\ cmpOut = Some("Greater")

\* the sort-key vectors built from the sort specification of cmpSelf
SameSpecVectors ==
    {MkFeatures([i \in CmpIndices |-> cmpSelf.features[i].order], values) :
        values \in [CmpIndices -> OptU64]}

\* C21: on the sort-key vectors built from one sort specification, also with
\* missing components and with directions that differ between the indices,
\* cmp(a, b) is the reverse of cmp(b, a), cmp(a, a) is Equal, and when
\* neither cmp(a, b) nor cmp(b, c) is Greater, cmp(a, c) is not Greater.
C21_TotalOrder ==
    /\ FeaturesCmp(cmpSelf, cmpOther) = Reverse(FeaturesCmp(cmpOther, cmpSelf))
    /\ FeaturesCmp(cmpSelf, cmpSelf) = "Equal"
    /\ FeaturesCmp(cmpOther, cmpOther) = "Equal"
    /\ cmpOut # None => Unwrap(cmpOut) = Reverse(FeaturesCmp(cmpOther, cmpSelf))
    /\ (cmpOut # None /\ cmpBefore = None /\ Unwrap(cmpOut) # "Greater") =>
        \A c \in SameSpecVectors :
            FeaturesCmp(cmpOther, c) # "Greater" => FeaturesCmp(cmpSelf, c) # "Greater"

\* two vectors of an Ascending and a Descending component, each with one
\* missing and one present component, were compared: the one whose first
\* component is missing came out Less, and there is a vector between them
C21_Witness ==
    /\ Len(cmpSelf.features) = 2
    /\ cmpSelf.features[1].order # cmpSelf.features[2].order
    /\ ~IsSome(cmpSelf.features[1].value) /\ IsSome(cmpSelf.features[2].value)
    /\ IsSome(cmpOther.features[1].value) /\ ~IsSome(cmpOther.features[2].value)
    /\ cmpOut = Some("Less")
    /\ \E c \in SameSpecVectors :
        FeaturesCmp(cmpSelf, c) = "Less" /\ FeaturesCmp(c, cmpOther) = "Less"

(***************************************************************************)
(* Properties of the query (specification Spec).                           *)
(***************************************************************************)
Max2(x, y) == IF x >= y THEN x ELSE y

\* the entries of all documents the segment collectors of S were given
AllEntries(S) ==
    UNION {{EntryOf(req, accessors[s], s, d) : d \in 0 .. (NumDocs(accessors[s]) - 1)} :
              s \in S}

\* the entries of the bag B that rank above, and that rank with, key k
NumAbove(B, k) ==
    BagCardinality([e \in {x \in BagToSet(B) : FeaturesCmp(x.feature, k) = "Greater"} |->
                      CopiesIn(e, B)])

NumEqual(B, k) ==
    BagCardinality([e \in {x \in BagToSet(B) : FeaturesCmp(x.feature, k) = "Equal"} |->
                      CopiesIn(e, B)])

\* the bag `kept` holds, of every rank, as many entries as the K best-ranked
\* entries of the bag `all` do
SameRanksAsTopK(kept, all, K) ==
    /\ BagToSet(kept) \subseteq BagToSet(all)
    /\ \A e \in BagToSet(all) :
        NumEqual(kept, e.feature) =
            Min2(NumEqual(all, e.feature), Max2(0, K - NumAbove(all, e.feature)))

\* C3: after any sequence of collect calls, in any order, a collector of
\* capacity K retains K of the entries it was given (all of them when it was
\* given fewer), each once, and no entry it dropped ranks strictly above an
\* entry it retains.
C3_RetainsTopK ==
    LET RetainsTopK(collector, given) ==
            LET kept == collector.top_n.buffer
                K == collector.top_n.top_n
            IN  /\ \A e \in BagToSet(kept) : CopiesIn(e, kept) = 1 /\ BagIn(e, given)
                /\ BagCardinality(kept) = Min2(K, BagCardinality(given))
                /\ \A d \in BagToSet(given (-) kept) :
                    \A k \in BagToSet(kept) : ~Better(d, k)
    IN  /\ \A s \in SegIds : RetainsTopK(segs[s].collector.inner_collector, fed[s])
        /\ RetainsTopK(single, SetToBag(AllEntries(SegIds)))

\* a segment collector of capacity 2 was given three documents: it dropped
\* one that ranks below both retained ones, which tie
C3_Witness ==
    \E s \in SegIds :
        LET kept == segs[s].collector.inner_collector.top_n.buffer
        IN  /\ segs[s].collector.inner_collector.top_n.top_n = 2
            /\ segs[s].state = "collecting"
            /\ BagCardinality(fed[s]) = 3
            /\ BagCardinality(kept) = 2
            /\ \A x \in BagToSet(kept), y \in BagToSet(kept) : ~Better(x, y)
            /\ \E d \in BagToSet(fed[s] (-) kept) : \A k \in BagToSet(kept) : Better(k, d)

\* the bag of sort-key vectors of a bag of entries
RanksOf(B) ==
    LET keys == {e.feature : e \in BagToSet(B)}
    IN  [k \in keys |->
            BagCardinality([e \in {x \in BagToSet(B) : x.feature = k} |-> CopiesIn(e, B)])]

\* C4: an intermediate result into which the collectors of all segments (the
\* parts of a partition of the document set) were merged retains the same
\* top-K as the single collector of the same capacity that was given every
\* document: the same number of entries of every rank.
C4_MergeEqualsSingle ==
    \A i \in SegIds :
        (segs[i].state \in {"fruit", "finalized"} /\ origin[i] = SegIds) =>
            /\ segs[i].collector.inner_collector.top_n.top_n = single.top_n.top_n
            /\ RanksOf(segs[i].collector.inner_collector.top_n.buffer) =
                    RanksOf(single.top_n.buffer)

\* three segments with documents, more documents than the capacity, all
\* merged, and the merged result differs from the single collector in a tie
C4_Witness ==
    \E i \in SegIds :
        /\ segs[i].state = "fruit"
        /\ origin[i] = SegIds
        /\ \A s \in SegIds : NumDocs(accessors[s]) >= 1
        /\ TotalDocs(SegIds) = 3
        /\ single.top_n.top_n = 2
        /\ BagCardinality(single.top_n.buffer) = 2
        /\ segs[i].collector.inner_collector.top_n.buffer # single.top_n.buffer

\* C5: whatever the order in which intermediate results are folded and
\* however they are grouped into a merge tree, a (partly or fully) merged
\* intermediate result retains entries of the same ranks: those of the K best
\* documents of the segments merged into it.
C5_MergeOrderInvariant ==
    \A i \in SegIds :
        segs[i].state \in {"fruit", "finalized"} =>
            SameRanksAsTopK(segs[i].collector.inner_collector.top_n.buffer,
                            SetToBag(AllEntries(origin[i])),
                            segs[i].collector.inner_collector.top_n.top_n)

\* three intermediate results with a document each, of three different
\* ranks, merged into one of capacity 1 whose own document is not the best
C5_Witness ==
    \E i \in SegIds :
        /\ segs[i].state = "fruit"
        /\ origin[i] = SegIds
        /\ \A s \in SegIds : NumDocs(accessors[s]) = 1
        /\ \A s \in SegIds, t \in SegIds :
            s # t => accessors[s]["date"].column # accessors[t]["date"].column
        /\ segs[i].collector.inner_collector.top_n.top_n = 1
        /\ \E e \in BagToSet(segs[i].collector.inner_collector.top_n.buffer) :
            e.doc.segment_ord # i
\* the value of the only sort key of an entry
SortValue(e) == e.feature.features[1].value

\* the outcome of finalize, and the `from` it drained
Outcome == Unwrap(result)

Offset == UnwrapOr(req.from, 0)

\* C1: collecting every segment into its own collector of capacity
\* size + offset, merging all partial results and finalizing does not fail
\* and yields the documents ranked [offset, offset + size) of the best-first
\* ranking of all documents, at most `size` of them.
C1_Pagination ==
    result # None =>
        LET all == SetToBag(AllEntries(SegIds))
            N == BagCardinality(all)
            hits == Outcome.hits
        IN  /\ ~Outcome.panic
            /\ Len(hits) = Min2(req.size, Max2(0, N - Offset))
            /\ \A j \in 1 .. Len(hits), k \in 1 .. Len(hits) :
                j # k => hits[j].id # hits[k].id
            /\ \A j \in 1 .. Len(hits) :
                \E e \in BagToSet(all) :
                    /\ hits[j] = TopHitsVecEntry(e)
                    /\ NumAbove(all, e.feature) < Offset + j
                    /\ Offset + j <= NumAbove(all, e.feature) + NumEqual(all, e.feature)

\* C2: when `from` exceeds the number of entries the finalized collector
\* retains, finalize does not fail and returns an empty hit list.
C2_OffsetBeyondRetained ==
    result # None =>
        LET kept == segs[Outcome.of].collector.inner_collector.top_n.buffer
        IN  Offset > BagCardinality(kept) =>
                (~Outcome.panic /\ Outcome.hits = <<>>)

\* C6: a document without a sort value is not retained by a collector of
\* capacity K that was given at least K documents with a value; and on a
\* Descending key, a collector of capacity 2 given two documents with one
\* value, one with a smaller value and one without a value retains the two
\* documents with the larger value (sort keys {5, None, 3, 5}).
C6_MissingLeastPreferred ==
    LET present(B) == [e \in {x \in BagToSet(B) : IsSome(SortValue(x))} |-> CopiesIn(e, B)]
        General(collector, given) ==
            BagCardinality(present(given)) >= collector.top_n.top_n =>
                \A e \in BagToSet(collector.top_n.buffer) : IsSome(SortValue(e))
        Example(collector, given) ==
            (/\ req.sort[1].order = "Desc"
             /\ collector.top_n.top_n = 2
             /\ BagCardinality(given) = 4
             /\ BagCardinality(present(given)) = 3
             /\ \E hi \in U64Values, lo \in U64Values :
                    /\ lo < hi
                    /\ {Unwrap(SortValue(e)) : e \in BagToSet(present(given))} = {lo, hi}
                    /\ Cardinality({e \in BagToSet(given) : SortValue(e) = Some(hi)}) = 2)
            => \A e \in BagToSet(collector.top_n.buffer), x \in BagToSet(given) :
                    IsSome(SortValue(e)) /\
                    (IsSome(SortValue(x)) => Unwrap(SortValue(x)) <= Unwrap(SortValue(e)))
    IN  /\ \A s \in SegIds :
            /\ General(segs[s].collector.inner_collector, fed[s])
            /\ Example(segs[s].collector.inner_collector, fed[s])
        /\ General(single, SetToBag(AllEntries(SegIds)))
        /\ Example(single, SetToBag(AllEntries(SegIds)))

\* C7: for a request with a single Descending sort key, size n and offset 0,
\* finalize returns the n documents with the largest values of the key, in
\* descending order of the value.
C7_DescendingLargestFirst ==
    (result # None /\ Len(req.sort) = 1 /\ req.sort[1].order = "Desc" /\ Offset = 0) =>
        LET all == AllEntries(SegIds)
            hits == Outcome.hits
            ids == {hits[j].id : j \in 1 .. Len(hits)}
        IN  /\ ~Outcome.panic
            /\ Len(hits) = Min2(req.size, Cardinality(all))
            /\ \A j \in 1 .. Len(hits), k \in 1 .. Len(hits) :
                (j < k /\ IsSome(hits[j].sort[1]) /\ IsSome(hits[k].sort[1])) =>
                    Unwrap(hits[j].sort[1]) >= Unwrap(hits[k].sort[1])
            /\ \A e \in all, j \in 1 .. Len(hits) :
                (e.doc \notin ids /\ IsSome(SortValue(e)) /\ IsSome(hits[j].sort[1])) =>
                    Unwrap(SortValue(e)) <= Unwrap(hits[j].sort[1])

\* C12: in every reachable state, after any sequence of collect and
\* merge_fruits operations, every collector still has the capacity K it was
\* created with (size + offset) and its selector retains at most K entries.
C12_CapacityInvariant ==
    LET WithinCapacity(collector) ==
            /\ collector.top_n.top_n = req.size + Offset
            /\ BagCardinality(into_vec(collector.top_n)) <= collector.top_n.top_n
    IN  /\ \A s \in SegIds : WithinCapacity(segs[s].collector.inner_collector)
        /\ WithinCapacity(single)

\* an intermediate result of capacity 2 that is full after the result of
\* another segment was merged into it, both segments having collected two
\* documents
C12_Witness ==
    \E i \in SegIds :
        /\ segs[i].state = "fruit"
        /\ Cardinality(origin[i]) >= 2
        /\ \A s \in origin[i] : NumDocs(accessors[s]) = 2
        /\ segs[i].collector.inner_collector.top_n.top_n = 2
        /\ BagCardinality(fed[i]) = 4
        /\ BagCardinality(into_vec(segs[i].collector.inner_collector.top_n)) = 2

\* C13: with size 0 and offset 0 no collect call fails, every collector stays
\* empty whatever it is given and whatever is merged into it, and finalize
\* does not fail and returns an empty hit list.
C13_SizeZero ==
    (req.size = 0 /\ Offset = 0) =>
        /\ \A s \in SegIds :
            /\ segs[s].state # "panicked"
            /\ into_vec(segs[s].collector.inner_collector.top_n) = EmptyBag
        /\ into_vec(single.top_n) = EmptyBag
        /\ result # None => (~Outcome.panic /\ Outcome.hits = <<>>)

\* a request with size 0 and `from` 0 was finalized after two segments had
\* collected documents and were merged
C13_Witness ==
    /\ req.size = 0
    /\ req.from = Some(0)
    /\ result # None
    /\ Cardinality(SegIds) = 2
    /\ \A s \in SegIds : NumDocs(accessors[s]) >= 1
    /\ TotalDocs(SegIds) >= 3

\* the collectors segment s can end with when it is run alone: `collect` on
\* its documents 0 .. n-1, in this order, from the collector from_req gives
RECURSIVE RunAlone(_, _)
RunAlone(s, n) ==
    IF n = 0
    THEN {from_req(req, s)}
    ELSE UNION {{o.self : o \in {x \in SegmentTopHitsCollector_collect(c, n - 1, accessors[s]) :
                                    x.result = "Ok"}} :
                   c \in RunAlone(s, n - 1)}

\* one run of the segments one after another: the partial result of s
OneAfterAnother(s) ==
    (CHOOSE c \in RunAlone(s, NumDocs(accessors[s])) : TRUE).inner_collector

\* one run of the segments one after another: the partial results of the
\* segments of S merged into self in ascending order
RECURSIVE MergeInOrder(_, _)
MergeInOrder(self, S) ==
    IF S = {}
    THEN self
    ELSE LET s == CHOOSE x \in S : \A y \in S : x <= y
         IN  MergeInOrder(CHOOSE c \in merge_fruits(self, OneAfterAnother(s)) : TRUE,
                          S \ {s})

SequentialOutcome ==
    CHOOSE r \in finalize(MergeInOrder(OneAfterAnother(0), SegIds \ {0})) : TRUE

SortsOf(hits) == [j \in 1 .. Len(hits) |-> hits[j].sort]

\* every collector that nothing was merged into is in a state that running
\* its segment alone leads to, and finalize ends as it does after running
\* the segments one after another, with hits of the same sort values
C19_AsRunAlone ==
    /\ \A s \in SegIds :
        origin[s] = {s} => segs[s].collector \in RunAlone(s, NumDocs(accessors[s]))
    /\ result # None =>
        /\ Outcome.panic = SequentialOutcome.panic
        /\ SortsOf(Outcome.hits) = SortsOf(SequentialOutcome.hits)

\* a step that gives a document to the collector of segment s leaves the
\* collector, the columns and the history of every other segment as they are
C19_Frame ==
    \A s \in SegIds :
        accessors'[s] # accessors[s] =>
            \A t \in SegIds \ {s} :
                /\ segs'[t] = segs[t]
                /\ accessors'[t] = accessors[t]
                /\ fed'[t] = fed[t]

\* C19: a collect step on one segment collector leaves every other
\* collector unchanged, and under every interleaving of the collect steps of
\* the segment collectors, every prefix of a scan included, each segment's
\* partial result is one that running the segment alone gives and the final
\* hit list has the sort values it has after running the segments one after
\* another.
C19_SegmentsIndependent == [](C19_AsRunAlone) /\ [][C19_Frame]_vars

\* two segments of two equally ranked documents each were collected in
\* turns, as the single collector of capacity 2 shows, which retains the
\* first document of both; their results were merged and finalized
C19_Witness ==
    /\ result # None
    /\ Cardinality(SegIds) = 2
    /\ \A s \in SegIds : NumDocs(accessors[s]) = 2
    /\ single.top_n.top_n = 2
    /\ {e.doc : e \in BagToSet(into_vec(single.top_n))} =
            {DocAddress(0, 0), DocAddress(1, 0)}
    /\ Len(Outcome.hits) = 2

\* C20: every entry a segment collector was given carries the ordinal of its
\* segment and the id of a document of that segment, with the sort key of
\* that document; no (segment ordinal, document id) pair appears twice in a
\* collector, whatever was collected and merged into it, nor in the hit list.
C20_DocumentIdentity ==
    LET Unique(B) ==
            \A e \in BagToSet(B) :
                /\ CopiesIn(e, B) = 1
                /\ \A x \in BagToSet(B) : x.doc = e.doc => x = e
        Owned(B, S) ==
            \A e \in BagToSet(B) :
                /\ e.doc.segment_ord \in S
                /\ e.doc.doc_id \in 0 .. (NumDocs(accessors[e.doc.segment_ord]) - 1)
                /\ e = EntryOf(req, accessors[e.doc.segment_ord],
                               e.doc.segment_ord, e.doc.doc_id)
    IN  /\ \A s \in SegIds :
            /\ Owned(fed[s], origin[s])
            /\ Owned(into_vec(segs[s].collector.inner_collector.top_n), origin[s])
            /\ Unique(into_vec(segs[s].collector.inner_collector.top_n))
        /\ Owned(into_vec(single.top_n), SegIds)
        /\ Unique(into_vec(single.top_n))
        /\ result # None =>
            /\ \A j \in 1 .. Len(Outcome.hits), k \in 1 .. Len(Outcome.hits) :
                j # k => Outcome.hits[j].id # Outcome.hits[k].id
            /\ \A j \in 1 .. Len(Outcome.hits) :
                \E e \in AllEntries(SegIds) : Outcome.hits[j] = TopHitsVecEntry(e)

\* the hit list holds the documents with id 0 of two segments, which tie
C20_Witness ==
    /\ result # None
    /\ ~Outcome.panic
    /\ Len(Outcome.hits) = 2
    /\ Outcome.hits[1].id.doc_id = 0
    /\ Outcome.hits[2].id.doc_id = 0
    /\ Outcome.hits[1].id.segment_ord # Outcome.hits[2].id.segment_ord
    /\ Outcome.hits[1].sort = Outcome.hits[2].sort

(***************************************************************************)
(* Properties of the segment collector (specification SpecSeg).            *)
(***************************************************************************)
\* the display fields of the request of the segment harness
SegDisplayFields == {segReq.doc_value_fields[i] : i \in 1 .. Len(segReq.doc_value_fields)}

\* C14: when a requested display field has a column type that is not
\* unsigned integer, signed integer or float, the first collect call and all
\* further ones end with the error "unsupported field type": no call
\* succeeds, none panics, and no entry is retained.
C14_UnsupportedFieldType ==
    ((\E f \in SegDisplayFields : segAccessors[f].type \notin {"U64", "I64", "F64"})
            /\ blkPos >= 1) =>
        \A o \in blkEach :
            /\ o.result = "Err"
            /\ o.message = "unsupported field type"
            /\ into_vec(o.self.inner_collector.top_n) = EmptyBag

\* C15: when the requested display fields have numeric columns, collect
\* succeeds on every document, also on one without a value for a display
\* field, further documents are collected, and a retained entry holds
\* exactly the display fields its document has a value for.
C15_MissingDisplayField ==
    (\A f \in SegDisplayFields : segAccessors[f].type \in {"U64", "I64", "F64"}) =>
        \A o \in blkEach :
            /\ o.result = "Ok"
            /\ \A e \in BagToSet(into_vec(o.self.inner_collector.top_n)) :
                {fv[1] : fv \in e.feature.search_results} =
                    {f \in SegDisplayFields :
                        IsSome(FirstValue(segAccessors[f], e.doc.doc_id))}

\* C16: when `collect` has been called on every document id of the blocks
\* handed to `collect_block`, both sides have the same possible outcomes:
\* the same collector states, with the same result.
C16_BlockEqualsLoop ==
    blkPos = Len(blkDocs) => blkEach = blkBlock

\* a second block, of two different documents, was collected by a collector
\* of capacity 1, by both sides and without failure: the second document of
\* the block replaced the retained entry
C16_Witness ==
    /\ blkCount = 2
    /\ Len(blkDocs) = 2
    /\ blkPos = 2
    /\ blkDocs[1] # blkDocs[2]
    /\ segReq.size = 1
    /\ \E o \in blkBlock :
        /\ o.result = "Ok"
        /\ \E e \in BagToSet(into_vec(o.self.inner_collector.top_n)) :
            e.doc.doc_id = blkDocs[2]
    /\ \E o \in blkEach : o.result = "Ok"

C22_MergeFrame ==
    /\ TopHitsCollector_default.top_n.top_n = 1
    /\ UnwrapOr(TopHitsCollector_default.req.from, 0) = 0
    /\ mrgResult # None =>
        LET before == Unwrap(mrgBefore)
        IN  /\ mrgResult = Some("Ok")
            /\ mrgSelf.req = before.req
            /\ mrgSelf.top_n.top_n = before.top_n.top_n
            /\ BagCardinality(into_vec(mrgSelf.top_n)) <= before.top_n.top_n
            /\ \A e \in BagToSet(into_vec(mrgSelf.top_n)) :
                CopiesIn(e, into_vec(mrgSelf.top_n)) <=
                    CopiesIn(e, into_vec(before.top_n) (+) into_vec(mrgOther.top_n))
            /\ mrgSelf \in merge_fruits(
                               before,
                               [mrgOther EXCEPT !.req = TopHitsCollector_default.req,
                                                !.top_n.top_n = 1])

\* a collector with two retained entries and a request with an offset was
\* merged into a default-constructed one, which retains one entry
C22_Witness ==
    /\ mrgResult = Some("Ok")
    /\ mrgBefore = Some(TopHitsCollector_default)
    /\ mrgOther.req.from = Some(MaxFrom)
    /\ mrgOther.top_n.top_n >= 2
    /\ BagCardinality(into_vec(mrgOther.top_n)) = 2
    /\ BagCardinality(into_vec(mrgSelf.top_n)) = 1
    /\ mrgSelf.req = TopHitsCollector_default.req
=============================================================================
